---- MODULE Spec2Model ----
(***************************************************************************)
(* Model of aten/src/ATen/native/ConvolutionMM3d.cpp: the "slow" CPU       *)
(* volumetric convolution (unfold -> GEMM) with its forward pass and its   *)
(* gradient passes, the shape validator that gates them, and the           *)
(* batch-partitioned parallel loops that drive the per-item frames.        *)
(*                                                                         *)
(* A tensor is a record [def, shape, data]: data is the dense row-major    *)
(* storage (all tensors of the model are contiguous), elements are         *)
(* integers (floating-point rounding is not modelled).                     *)
(***************************************************************************)
EXTENDS Integers, Sequences, FiniteSets, TLC

VARIABLES
  pc,          \* position of the calling thread
  err,         \* kind of the error the current call raised ("" when none)
  self,        \* input Volume (argument)
  weight,      \* Weight (argument, maybe undefined)
  bias,        \* Bias (argument, maybe undefined)
  kernel_size, \* <<kd, kh, kw>>
  stride,      \* <<sd, sh, sw>>
  padding,     \* <<pd, ph, pw>>
  grad_output, \* outputGrad (argument of Backward)
  output,      \* caller-visible buffers
  finput,      \* ColumnBuffer
  fgrad_input, \* GradColumnBuffer
  grad_input,
  grad_weight,
  grad_bias,
  parts,       \* the partitions of the parallel loop in progress
  pre,         \* the buffers as they were when the current call began
  handled,     \* how many times each batch index was processed by the loop
  lost,        \* contributions overwritten by racing accumulations
  ncalls       \* number of Backward calls the caller has still to make

vars == <<pc, err, self, weight, bias, kernel_size, stride, padding,
          grad_output, output, finput, fgrad_input, grad_input,
          grad_weight, grad_bias, parts, pre, handled, lost, ncalls>>

argvars == <<self, weight, bias, kernel_size, stride, padding>>

(***************************************************************************)
(* Bounds of the model and the program's constants                         *)
(***************************************************************************)
CONV3D_GRAIN_SALT == 20

MaxIn == 3

MaxK == 2

MaxStride == 2

MaxPad == 1

MaxChan == 2

MaxSeed == 2

MaxCalls == 2

MaxBatch == 2

MaxExtra == 2

(***************************************************************************)
(* Dense-array abstraction                                                 *)
(***************************************************************************)
RECURSIVE Prod(_)
Prod(s) == IF s = <<>> THEN 1 ELSE Head(s) * Prod(Tail(s))

Undef == [def |-> FALSE, shape |-> <<>>, data |-> <<>>]

Numel(t) == Prod(t.shape)

Dim(t) == Len(t.shape)

\* tensor.size(d), d counted from 0 as in the source
Size(t, d) == t.shape[d + 1]

\* at::empty({0})
Empty0 == [def |-> TRUE, shape |-> <<0>>, data |-> <<>>]

\* a defined tensor of the given shape whose elements follow a seeded pattern
Val(seed, i) == ((i * seed + (i \div 3)) % 3) - 1

Mk(shape, seed) ==
  [def |-> TRUE, shape |-> shape,
   data |-> [i \in 1..Prod(shape) |-> Val(seed, i)]]

\* tensor.resize_(shape): the storage kept, new elements uninitialised (junk)
Resize(t, shape, junk) ==
  [def |-> TRUE, shape |-> shape,
   data |-> [i \in 1..Prod(shape) |->
               IF i <= Len(t.data) THEN t.data[i] ELSE junk]]

\* tensor.zero_()
Zero(t) == [t EXCEPT !.data = [i \in 1..Len(t.data) |-> 0]]

\* tensor[i]: the slice at leading index i (a view; here its value)
Select(t, i) ==
  LET n == Prod(Tail(t.shape))
  IN  [def |-> TRUE, shape |-> Tail(t.shape),
       data |-> [j \in 1..n |-> t.data[i * n + j]]]

\* writing through the view tensor[i]
SetSlice(t, i, d) ==
  LET n == Prod(Tail(t.shape))
  IN  [t EXCEPT !.data = [j \in 1..Len(t.data) |->
                            IF j > i * n /\ j <= (i + 1) * n
                              THEN d[j - i * n] ELSE t.data[j]]]

\* C++ integer division: truncation toward zero
TruncDiv(a, b) ==
  IF b = 0 THEN 0
  ELSE LET q == (IF a < 0 THEN -a ELSE a) \div (IF b < 0 THEN -b ELSE b)
       IN  IF (a < 0) = (b < 0) THEN q ELSE -q

\* C++ remainder, sign of the dividend
TruncRem(a, b) == a - b * TruncDiv(a, b)

\* div_rtn<int64_t>(x, y): division rounding toward negative infinity
div_rtn(x, y) ==
  LET q == TruncDiv(x, y)
      r == TruncRem(x, y)
  IN  IF r # 0 /\ ((r < 0) # (y < 0)) THEN q - 1 ELSE q

\* check_dim_size(tensor, dim, dim_size, size)
check_dim_size(t, dim, dim_size, size) ==
  Dim(t) = dim /\ Size(t, dim_size) = size

(***************************************************************************)
(* slow_conv3d_shape_check                                                 *)
(***************************************************************************)
OutSizeRtn(inp, pad, k, s) == div_rtn(inp + 2 * pad - k, s) + 1

\* implied input-channel count of the weight
NInputPlane(w, ks) ==
  IF Dim(w) = 2 THEN TruncDiv(Size(w, 1), ks[2] * ks[3])
  ELSE Size(w, 1)

\* lines 31-48: kernel and stride components strictly positive
CheckKernelStride(ks, st) ==
  /\ ks[3] > 0 /\ ks[2] > 0 /\ ks[1] > 0
  /\ st[3] > 0 /\ st[2] > 0 /\ st[1] > 0

\* the weight check without its test of the rank
CheckWeightBiasAnyRank(w, b, weight_optional) ==
  IF w.def
    THEN /\ Numel(w) > 0
         /\ (b.def => check_dim_size(b, 1, 0, Size(w, 0)))
    ELSE weight_optional

\* lines 49-59: a defined weight is non-empty, of rank 2 or 5, and a defined
\* bias has its length; an undefined weight only when optional
CheckWeightBias(w, b, weight_optional) ==
  IF w.def
    THEN /\ Numel(w) > 0 /\ (Dim(w) = 2 \/ Dim(w) = 5)
         /\ (b.def => check_dim_size(b, 1, 0, Size(w, 0)))
    ELSE weight_optional

\* lines 68-71: an empty batch is allowed, no other empty dimension
valid_empty(input) ==
  /\ Dim(input) = 5
  /\ Size(input, 0) = 0
  /\ Size(input, 1) # 0 /\ Size(input, 2) # 0
  /\ Size(input, 3) # 0 /\ Size(input, 4) # 0

\* the input check without the allowance for an empty batch
CheckInputNonEmpty(input) == Numel(input) > 0 /\ Dim(input) = 5

\* lines 73-76
CheckInput(input) ==
  (Numel(input) > 0 \/ valid_empty(input)) /\ Dim(input) = 5

\* lines 82-103: the padded input is at least as large as the kernel
CheckPadded(input, ks, pd) ==
  /\ Size(input, 2) + 2 * pd[1] >= ks[1]
  /\ Size(input, 3) + 2 * pd[2] >= ks[2]
  /\ Size(input, 4) + 2 * pd[3] >= ks[3]

\* lines 105-110: the output sizes the validator computes
CheckOsz(input, ks, st, pd) ==
  [a \in 1..3 |-> OutSizeRtn(Size(input, a + 1), pd[a], ks[a], st[a])]

\* lines 112-127
CheckOutputSize(input, ks, st, pd) ==
  /\ CheckOsz(input, ks, st, pd)[1] >= 1
  /\ CheckOsz(input, ks, st, pd)[3] >= 1
  /\ CheckOsz(input, ks, st, pd)[2] >= 1

\* lines 129-135
CheckInputPlanes(input, w, ks) ==
  w.def => check_dim_size(input, Dim(input), 1, NInputPlane(w, ks))

\* lines 137-149
CheckGradOutput(input, go, w, b, ks, st, pd) ==
  go.def =>
    /\ IF w.def
         THEN check_dim_size(go, Dim(input), 1, Size(w, 0))
         ELSE (b.def =>
                 /\ Numel(b) > 0
                 /\ check_dim_size(go, Dim(input), 1,
                                   IF Dim(b) = 0 THEN 1 ELSE Size(b, 0)))
    /\ check_dim_size(go, Dim(input), 2, CheckOsz(input, ks, st, pd)[1])
    /\ check_dim_size(go, Dim(input), 3, CheckOsz(input, ks, st, pd)[2])
    /\ check_dim_size(go, Dim(input), 4, CheckOsz(input, ks, st, pd)[3])

\* TRUE iff no check of the validator fails; the checks run in this order and
\* the first that fails raises
slow_conv3d_shape_check(input, go, w, b, ks, st, pd, weight_optional) ==
  /\ CheckKernelStride(ks, st)
  /\ CheckWeightBias(w, b, weight_optional)
  /\ CheckInput(input)
  /\ CheckPadded(input, ks, pd)
  /\ CheckOutputSize(input, ks, st, pd)
  /\ CheckInputPlanes(input, w, ks)
  /\ CheckGradOutput(input, go, w, b, ks, st, pd)

(***************************************************************************)
(* view_weight_2d                                                          *)
(***************************************************************************)
view_weight_2d(w) ==
  IF Dim(w) = 5
    THEN [w EXCEPT !.shape = <<Size(w, 0),
                               Size(w, 1) * Size(w, 2) * Size(w, 3) * Size(w, 4)>>]
    ELSE w

(***************************************************************************)
(* Matrix primitives and the unfold / fold primitives                      *)
(***************************************************************************)
RECURSIVE SumF(_, _)
SumF(f, n) == IF n = 0 THEN 0 ELSE f[n] + SumF(f, n - 1)

\* (m x k) * (k x n), all flat row-major; entry (i, j), counted from 0
MatEntry(A, B, k, n, i, j) ==
  SumF([l \in 1..k |-> A[i * k + l] * B[(l - 1) * n + j + 1]], k)

\* self.addmm_(A, B, beta, 1): beta * self + A * B; beta = 0 ignores self
Addmm(slf, A, B, m, k, n, beta) ==
  [x \in 1..(m * n) |->
     (IF beta = 0 THEN 0 ELSE beta * slf[x])
       + MatEntry(A, B, k, n, (x - 1) \div n, (x - 1) % n)]

\* transpose of a flat (m x n) matrix
Transpose(A, m, n) ==
  [x \in 1..(m * n) |-> A[((x - 1) % m) * n + ((x - 1) \div m) + 1]]

\* geometry of one frame: D, H, W of the volume, output sizes, kernel etc.
Geom(C, isz, osz, ks, st, pd) ==
  [C |-> C, isz |-> isz, osz |-> osz, ks |-> ks, st |-> st, pd |-> pd]

KVol(g) == g.ks[1] * g.ks[2] * g.ks[3]

OVol(g) == g.osz[1] * g.osz[2] * g.osz[3]

\* position in the volume read by row r, column q of the unfolded matrix:
\* <<c, d, h, w>>, all counted from 0 (d, h, w may fall in the padding)
Tap(g, r, q) ==
  LET kv  == KVol(g)
      rem == r % kv
      kz  == rem \div (g.ks[2] * g.ks[3])
      ky  == (rem \div g.ks[3]) % g.ks[2]
      kx  == rem % g.ks[3]
      oz  == q \div (g.osz[2] * g.osz[3])
      oy  == (q \div g.osz[3]) % g.osz[2]
      ox  == q % g.osz[3]
  IN  <<r \div kv,
        oz * g.st[1] - g.pd[1] + kz,
        oy * g.st[2] - g.pd[2] + ky,
        ox * g.st[3] - g.pd[3] + kx>>

InVolume(g, p) ==
  /\ p[2] >= 0 /\ p[2] < g.isz[1]
  /\ p[3] >= 0 /\ p[3] < g.isz[2]
  /\ p[4] >= 0 /\ p[4] < g.isz[3]

VolIndex(g, p) ==
  ((p[1] * g.isz[1] + p[2]) * g.isz[2] + p[3]) * g.isz[3] + p[4] + 1

\* Unfold3dCopyCPU: column q is the receptive field of output position q
Unfold3dCopyCPU(src, g) ==
  LET P == OVol(g)
  IN  [x \in 1..(g.C * KVol(g) * P) |->
         LET p == Tap(g, (x - 1) \div P, (x - 1) % P)
         IN  IF InVolume(g, p) THEN src[VolIndex(g, p)] ELSE 0]

\* unfolded3d_acc_kernel_cpu: every column entry is added to the element of
\* the volume it was unfolded from
unfolded3d_acc_kernel_cpu(cols, dst, g) ==
  LET P == OVol(g)
      R == g.C * KVol(g)
  IN  [v \in 1..Len(dst) |->
         dst[v] + SumF([x \in 1..(R * P) |->
                          LET p == Tap(g, (x - 1) \div P, (x - 1) % P)
                          IN  IF InVolume(g, p) /\ VolIndex(g, p) = v
                                THEN cols[x] ELSE 0], R * P)]

(***************************************************************************)
(* at::parallel_for: contiguous chunks of the grain size                   *)
(***************************************************************************)
NChunks(n, grain) == (n + grain - 1) \div grain

Min(a, b) == IF a < b THEN a ELSE b

\* one record per partition: its range, the index it is at, its phase, the
\* value it holds in a local between a load and the store, and the exception
\* its loop body raised, if any
ParallelFor(begin, end, grain, ph0) ==
  [i \in 1..NChunks(end - begin, grain) |->
     [lo |-> begin + (i - 1) * grain,
      hi |-> Min(end, begin + i * grain),
      t  |-> begin + (i - 1) * grain,
      ph |-> ph0,
      c  |-> 0,
      reg |-> <<>>,
      ex |-> ""]]

\* per-index counters of a loop over [0, n)
ZeroFn(n) == [t \in 0..(n - 1) |-> 0]

\* the index counted from the start of the partition's chunk
FrameIndexInChunk(p) == p.t - p.lo

\* the batch index a partition's loop body works on (the loop variable t)
FrameIndex(p) == p.t

\* partition i has a batch index left to process: its range is not exhausted
\* and its loop body has not raised
Pending(i) == parts[i].t < parts[i].hi /\ parts[i].ex = ""

\* every partition has run to the end of its range or to an exception; only
\* then does parallel_for return, or rethrow the exception raised first
AllDone == \A i \in 1..Len(parts) : ~Pending(i)

\* the exception parallel_for rethrows once partition i has raised e
FirstRaised(e) == IF err = "" THEN e ELSE err

\* where the call stands once the loop has been joined
Joined(done) == IF err = "" THEN done ELSE "error"

(***************************************************************************)
(* slow_conv3d_forward_out_cpu                                             *)
(***************************************************************************)
\* the output size with the padding counted on one side only
ForwardOutSizePadOnce(inp, pad, k, s) == TruncDiv(inp + pad - k, s) + 1

\* output size along one axis as Forward computes it (lines 483-488)
ForwardOutSize(inp, pad, k, s) == TruncDiv(inp + 2 * pad - k, s) + 1

ForwardOsz ==
  [a \in 1..3 |->
     ForwardOutSize(Size(self, a + 1), padding[a], kernel_size[a], stride[a])]

FrameGeom ==
  Geom(Size(self, 1), <<Size(self, 2), Size(self, 3), Size(self, 4)>>,
       <<ForwardOsz[1], ForwardOsz[2], ForwardOsz[3]>>,
       kernel_size, stride, padding)

\* the ColumnBuffer's shape with the kernel depth left out of its rows
FinputShapeNoDepth ==
  <<Size(self, 0),
    Size(self, 1) * kernel_size[2] * kernel_size[3],
    ForwardOsz[1] * ForwardOsz[2] * ForwardOsz[3]>>

\* shape of the ColumnBuffer Forward asks for (lines 491-493)
FinputShape ==
  <<Size(self, 0),
    Size(self, 1) * kernel_size[1] * kernel_size[2] * kernel_size[3],
    ForwardOsz[1] * ForwardOsz[2] * ForwardOsz[3]>>

\* shape of the output Forward asks for (lines 494-495)
OutputShape ==
  <<Size(self, 0), Size(view_weight_2d(weight), 0),
    ForwardOsz[1], ForwardOsz[2], ForwardOsz[3]>>

Buffers ==
  [output |-> output, finput |-> finput, fgrad_input |-> fgrad_input,
   grad_input |-> grad_input, grad_weight |-> grad_weight,
   grad_bias |-> grad_bias]

JunkVals == {0, 7}

\* lines 453-498: validation, then the resizes, then the dispatch
ForwardCall ==
  /\ pc = "idle"
  /\ pre' = Buffers
  /\ IF ~slow_conv3d_shape_check(self, Undef, weight, bias, kernel_size,
                                 stride, padding, FALSE)
       THEN /\ pc' = "error"
            /\ err' = "InvalidArgument"
            /\ UNCHANGED <<output, finput, parts, handled>>
       ELSE /\ \E junk \in JunkVals :
                 /\ finput' = Resize(finput, FinputShape, junk)
                 /\ output' = Resize(output, OutputShape, junk)
            /\ parts' = ParallelFor(0, Size(self, 0), CONV3D_GRAIN_SALT, "unfold")
            /\ handled' = [handled EXCEPT !.fwd = ZeroFn(Size(self, 0))]
            /\ pc' = "fwd"
            /\ UNCHANGED err
  /\ UNCHANGED <<argvars, grad_output, fgrad_input, grad_input,
                 grad_weight, grad_bias, lost, ncalls>>

\* the output slice when the product is accumulated into whatever it holds
OutputFrameNoFill(out_t, w2d, fin_t, n_output_plane, P) ==
  Addmm(out_t.data, w2d.data, fin_t.data, n_output_plane, Size(w2d, 1), P, 1)

\* the output slice after the loop of lines 209-211: plane i holds bias[i]
BiasFilled(n_output_plane, P) ==
  [x \in 1..(n_output_plane * P) |-> bias.data[((x - 1) \div P) + 1]]

\* the output slice after lines 206-215
OutputFrame(out_t, w2d, fin_t, n_output_plane, P) ==
  IF bias.def
    THEN Addmm(BiasFilled(n_output_plane, P),
               w2d.data, fin_t.data, n_output_plane, Size(w2d, 1), P, 1)
    ELSE Addmm(out_t.data, w2d.data, fin_t.data,
               n_output_plane, Size(w2d, 1), P, 0)

\* slow_conv3d_update_output_frame for batch index t, in two steps; when the
\* product's operands do not fit, addmm_ (line 212) raises after the bias has
\* been written to the slice, mm_out (line 214) before anything is written
FwdStep(i) ==
  /\ pc = "fwd"
  /\ Pending(i)
  /\ LET t   == FrameIndex(parts[i])
         w2d == view_weight_2d(weight)
     IN  \/ /\ parts[i].ph = "unfold"
            /\ finput' = SetSlice(finput, t,
                           Unfold3dCopyCPU(Select(self, t).data, FrameGeom))
            /\ parts' = [parts EXCEPT ![i].ph = "gemm"]
            /\ UNCHANGED <<output, pc, err, handled>>
         \/ /\ parts[i].ph = "gemm"
            /\ IF Size(w2d, 1) # Size(finput, 1)
                 THEN /\ err' = FirstRaised("RuntimeError")
                      /\ parts' = [parts EXCEPT ![i].ex = "RuntimeError"]
                      /\ output' = IF bias.def
                                     THEN SetSlice(output, t,
                                            BiasFilled(Size(w2d, 0),
                                                       Size(finput, 2)))
                                     ELSE output
                      /\ UNCHANGED <<pc, handled>>
                 ELSE /\ output' = SetSlice(output, t,
                                     OutputFrame(Select(output, t), w2d,
                                                 Select(finput, t),
                                                 Size(w2d, 0), Size(finput, 2)))
                      /\ parts' = [parts EXCEPT ![i].ph = "unfold",
                                                ![i].t = @ + 1]
                      /\ handled' = [handled EXCEPT !.fwd[parts[i].t] = @ + 1]
                      /\ UNCHANGED <<pc, err>>
            /\ UNCHANGED finput
  /\ UNCHANGED <<argvars, grad_output, fgrad_input, grad_input,
                 grad_weight, grad_bias, pre, lost, ncalls>>

\* the parallel loop has ended: Forward returns, or fails with the exception
\* a partition raised
FwdJoin ==
  /\ pc = "fwd"
  /\ AllDone
  /\ pc' = Joined("fwd_done")
  /\ UNCHANGED <<err, argvars, grad_output, output, finput, fgrad_input,
                 grad_input, grad_weight, grad_bias, parts, pre, handled,
                 lost, ncalls>>

(***************************************************************************)
(* slow_conv3d_backward_out_cpu                                            *)
(***************************************************************************)
ZeroSeq(n) == [x \in 1..n |-> 0]

NoLost == [w |-> <<>>, b |-> <<>>]

\* first phase of the parameter frame (lines 338, 343)
ParamPhase0 == IF grad_weight.def THEN "wload" ELSE "bload"

\* the weight gradient resized but not zeroed
ResizedGradWeight ==
  IF grad_weight.def THEN Resize(grad_weight, weight.shape, 0)
  ELSE grad_weight

\* lines 582-590: the requested parameter gradients, resized and zeroed
ZeroedGradWeight ==
  IF grad_weight.def THEN Zero(Resize(grad_weight, weight.shape, 0))
  ELSE grad_weight

ZeroedGradBias ==
  IF grad_bias.def THEN Zero(Resize(grad_bias, <<Size(grad_output, 1)>>, 0))
  ELSE grad_bias

\* lines 582-603 and 387-416: the parameter gradients are resized and zeroed,
\* then slow_conv3d_backward_parameters_out_cpu_template validates and
\* dispatches its loop
ParamStage ==
  /\ grad_weight' = ZeroedGradWeight
  /\ grad_bias' = ZeroedGradBias
  /\ IF ~(grad_weight.def \/ grad_bias.def)
       THEN /\ pc' = "bwd_done"
            /\ ncalls' = ncalls - 1
            /\ UNCHANGED <<err, parts, lost, handled>>
       ELSE IF ~slow_conv3d_shape_check(self, grad_output, ZeroedGradWeight,
                                        ZeroedGradBias, kernel_size, stride,
                                        padding, TRUE)
         THEN /\ pc' = "error"
              /\ err' = "InvalidArgument"
              /\ UNCHANGED <<parts, lost, handled, ncalls>>
         ELSE /\ pc' = "bwd_gp"
              /\ parts' = ParallelFor(0, Size(self, 0), CONV3D_GRAIN_SALT,
                                      ParamPhase0)
              /\ handled' = [handled EXCEPT !.gp = ZeroFn(Size(self, 0))]
              /\ lost' = [w |-> ZeroSeq(Len(ZeroedGradWeight.data)),
                          b |-> ZeroSeq(Len(ZeroedGradBias.data))]
              /\ UNCHANGED <<err, ncalls>>

\* lines 568-580 with 279-304; without a requested gradInput, lines 582-603
BackwardCall ==
  /\ pc \in {"fwd_done", "bwd_done"}
  /\ ncalls > 0
  /\ pre' = Buffers
  /\ IF grad_input.def
       THEN /\ IF ~slow_conv3d_shape_check(self, grad_output, weight, Undef,
                                           kernel_size, stride, padding, FALSE)
                 THEN /\ pc' = "error"
                      /\ err' = "InvalidArgument"
                      /\ UNCHANGED <<grad_input, fgrad_input, parts, handled>>
                 ELSE /\ \E junk \in JunkVals :
                           grad_input' = Resize(grad_input, self.shape, junk)
                      /\ fgrad_input' =
                           Zero(Resize(fgrad_input, finput.shape, 0))
                      /\ parts' = ParallelFor(0, Size(self, 0),
                                              CONV3D_GRAIN_SALT, "addmm")
                      /\ handled' =
                           [handled EXCEPT !.gi = ZeroFn(Size(self, 0))]
                      /\ pc' = "bwd_gi"
                      /\ UNCHANGED err
            /\ UNCHANGED <<grad_weight, grad_bias, lost, ncalls>>
       ELSE /\ ParamStage
            /\ UNCHANGED <<grad_input, fgrad_input>>
  /\ UNCHANGED <<argvars, grad_output, output, finput>>

\* geometry the fold is called with (lines 250-256)
FoldGeom ==
  Geom(Size(grad_input, 1),
       <<Size(grad_input, 2), Size(grad_input, 3), Size(grad_input, 4)>>,
       <<Size(grad_output, 2), Size(grad_output, 3), Size(grad_output, 4)>>,
       kernel_size, stride, padding)

\* fgrad_input_t after line 235
GradColumnsFrame(fg_t, w2d, go_t) ==
  Addmm(fg_t.data, Transpose(w2d.data, Size(w2d, 0), Size(w2d, 1)), go_t.data,
        Size(w2d, 1), Size(w2d, 0),
        Size(go_t, 1) * Size(go_t, 2) * Size(go_t, 3), 0)

\* grad_input_t after lines 237-256
GradInputFrame(gi_t, fg_t) ==
  unfolded3d_acc_kernel_cpu(fg_t.data, ZeroSeq(Len(gi_t.data)), FoldGeom)

\* slow_conv3d_backward_update_grad_input_frame for batch index t, in two steps
GIStep(i) ==
  /\ pc = "bwd_gi"
  /\ Pending(i)
  /\ LET t   == FrameIndex(parts[i])
         w2d == view_weight_2d(weight)
     IN  IF t >= Size(grad_output, 0) \/ t >= Size(fgrad_input, 0)
           THEN /\ err' = FirstRaised("IndexError")
                /\ parts' = [parts EXCEPT ![i].ex = "IndexError"]
                /\ UNCHANGED <<fgrad_input, grad_input, pc, handled>>
           ELSE
             \/ /\ parts[i].ph = "addmm"
                /\ IF \/ Size(w2d, 0) # Size(grad_output, 1)
                      \/ Size(w2d, 1) # Size(fgrad_input, 1)
                      \/ Size(grad_output, 2) * Size(grad_output, 3)
                           * Size(grad_output, 4) # Size(fgrad_input, 2)
                     THEN /\ err' = FirstRaised("RuntimeError")
                          /\ parts' = [parts EXCEPT ![i].ex = "RuntimeError"]
                          /\ UNCHANGED <<fgrad_input, pc>>
                     ELSE /\ fgrad_input' =
                               SetSlice(fgrad_input, t,
                                 GradColumnsFrame(Select(fgrad_input, t), w2d,
                                                  Select(grad_output, t)))
                          /\ parts' = [parts EXCEPT ![i].ph = "fold"]
                          /\ UNCHANGED <<pc, err>>
                /\ UNCHANGED <<grad_input, handled>>
             \/ /\ parts[i].ph = "fold"
                /\ grad_input' =
                     SetSlice(grad_input, t,
                       GradInputFrame(Select(grad_input, t),
                                      Select(fgrad_input, t)))
                /\ parts' = [parts EXCEPT ![i].ph = "addmm", ![i].t = @ + 1]
                /\ handled' = [handled EXCEPT !.gi[parts[i].t] = @ + 1]
                /\ UNCHANGED <<fgrad_input, pc, err>>
  /\ UNCHANGED <<argvars, grad_output, output, finput, grad_weight, grad_bias,
                 pre, lost, ncalls>>

\* the gradInput loop has ended: Backward goes on with the parameters, or
\* fails with the exception a partition raised
GIJoin ==
  /\ pc = "bwd_gi"
  /\ AllDone
  /\ IF err = "" THEN ParamStage
     ELSE /\ pc' = "error"
          /\ UNCHANGED <<err, grad_weight, grad_bias, parts, handled, lost,
                         ncalls>>
  /\ UNCHANGED <<argvars, grad_output, output, finput, fgrad_input,
                 grad_input, pre>>

\* grad_weight.addmm_(grad_output_2d, tfinput) (lines 339-340)
GradWeightFrame(gw, go_t, fin_t) ==
  LET P == Size(go_t, 1) * Size(go_t, 2) * Size(go_t, 3)
  IN  Addmm(gw, go_t.data, Transpose(fin_t.data, Size(fin_t, 0), P),
            Size(go_t, 0), P, Size(fin_t, 0), 1)

\* what the product grad_output_2d * tfinput adds to element e (0-based, row
\* major) of grad_weight (line 340)
GradWeightEntry(go_t, fin_t, e) ==
  GradWeightFrame(ZeroSeq(Size(go_t, 0) * Size(fin_t, 0)), go_t, fin_t)[e + 1]

\* the sum of row c of grad_output_2d (lines 353-356)
GradBiasRowSum(go_t, c) ==
  LET P == Size(go_t, 1) * Size(go_t, 2) * Size(go_t, 3)
  IN  SumF([k \in 1..P |-> go_t.data[c * P + k]], P)

\* an accumulation that adds to the value the buffer holds at the store
StoreAtomic(current, loaded, addend) == current + addend

\* x += addend as the frame executes it: the value loaded before, plus the
\* addend, is stored (lines 340, 357)
StoreAccumulated(current, loaded, addend) == loaded + addend

\* where the parameter frame goes after element c of the weight gradient, or
\* after channel c of the bias gradient
AfterWeight(p) ==
  IF p.c + 1 < Len(grad_weight.data)
    THEN [p EXCEPT !.ph = "wload", !.c = @ + 1, !.reg = <<>>]
    ELSE IF grad_bias.def /\ Size(grad_bias, 0) > 0
           THEN [p EXCEPT !.ph = "bload", !.c = 0, !.reg = <<>>]
           ELSE [p EXCEPT !.ph = ParamPhase0, !.c = 0, !.t = @ + 1,
                          !.reg = <<>>]

AfterBias(p) ==
  IF p.c + 1 < Size(grad_bias, 0)
    THEN [p EXCEPT !.ph = "bload", !.c = @ + 1, !.reg = <<>>]
    ELSE [p EXCEPT !.ph = ParamPhase0, !.c = 0, !.t = @ + 1, !.reg = <<>>]

\* slow_conv3d_backward_parameters_frame for batch index t: the accumulation
\* into each element of the shared gradWeight / gradBias is a load followed by
\* a store, and the other partitions may run between any two of them
GPStep(i) ==
  /\ pc = "bwd_gp"
  /\ Pending(i)
  /\ LET t == FrameIndex(parts[i])
         p == parts[i]
     IN  IF t >= Size(grad_output, 0) \/ (grad_weight.def /\ t >= Size(finput, 0))
           THEN /\ err' = FirstRaised("IndexError")
                /\ parts' = [parts EXCEPT ![i].ex = "IndexError"]
                /\ UNCHANGED <<grad_weight, grad_bias, pc, handled, lost>>
           ELSE
             \/ /\ p.ph = "wload"
                /\ IF /\ p.c = 0
                      /\ \/ Size(grad_weight, 0) # Size(grad_output, 1)
                         \/ Len(grad_weight.data)
                              # Size(grad_output, 1) * Size(finput, 1)
                         \/ Size(grad_output, 2) * Size(grad_output, 3)
                              * Size(grad_output, 4) # Size(finput, 2)
                     THEN /\ err' = FirstRaised("RuntimeError")
                          /\ parts' = [parts EXCEPT ![i].ex = "RuntimeError"]
                          /\ UNCHANGED pc
                     ELSE /\ parts' = [parts EXCEPT ![i].ph = "wstore",
                                                    ![i].reg =
                                                      grad_weight.data[p.c + 1]]
                          /\ UNCHANGED <<pc, err>>
                /\ UNCHANGED <<grad_weight, grad_bias, handled, lost>>
             \/ /\ p.ph = "wstore"
                /\ grad_weight' =
                     [grad_weight EXCEPT !.data[p.c + 1] =
                        StoreAccumulated(@, p.reg,
                          GradWeightEntry(Select(grad_output, t),
                                          Select(finput, t), p.c))]
                /\ lost' = [lost EXCEPT !.w[p.c + 1] =
                              @ + grad_weight.data[p.c + 1] - p.reg]
                /\ parts' = [parts EXCEPT ![i] = AfterWeight(p)]
                /\ handled' = IF AfterWeight(p).t = p.t THEN handled
                              ELSE [handled EXCEPT !.gp[p.t] = @ + 1]
                /\ UNCHANGED <<grad_bias, pc, err>>
             \/ /\ p.ph = "bload"
                /\ parts' = [parts EXCEPT ![i].ph = "bstore",
                                          ![i].reg = grad_bias.data[p.c + 1]]
                /\ UNCHANGED <<grad_weight, grad_bias, handled, lost, pc, err>>
             \/ /\ p.ph = "bstore"
                /\ grad_bias' =
                     [grad_bias EXCEPT !.data[p.c + 1] =
                        StoreAccumulated(@, p.reg,
                          GradBiasRowSum(Select(grad_output, t), p.c))]
                /\ lost' = [lost EXCEPT !.b[p.c + 1] =
                              @ + grad_bias.data[p.c + 1] - p.reg]
                /\ parts' = [parts EXCEPT ![i] = AfterBias(p)]
                /\ handled' = IF AfterBias(p).t = p.t THEN handled
                              ELSE [handled EXCEPT !.gp[p.t] = @ + 1]
                /\ UNCHANGED <<grad_weight, pc, err>>
  /\ UNCHANGED <<argvars, grad_output, output, finput, fgrad_input,
                 grad_input, pre, ncalls>>

\* the parameter loop has ended: Backward returns, or fails with the
\* exception a partition raised
GPJoin ==
  /\ pc = "bwd_gp"
  /\ AllDone
  /\ pc' = Joined("bwd_done")
  /\ ncalls' = IF err = "" THEN ncalls - 1 ELSE ncalls
  /\ UNCHANGED <<err, argvars, grad_output, output, finput, fgrad_input,
                 grad_input, grad_weight, grad_bias, parts, pre, handled, lost>>

(***************************************************************************)
(* Calls explored: arguments and caller-provided buffers                   *)
(***************************************************************************)
\* a caller-provided buffer that already holds something
Dirty == [def |-> TRUE, shape |-> <<3>>, data |-> <<5, 5, 5>>]

\* the output size the convolution arithmetic gives along one axis, for the
\* outputGrad the caller passes
ExpectedOut(ax) ==
  IF ax[3] > 0 /\ ax[1] + 2 * ax[4] - ax[2] >= 0
    THEN (ax[1] + 2 * ax[4] - ax[2]) \div ax[3] + 1
    ELSE 1

\* ax: one <<input size, kernel, stride, padding>> per spatial axis
MkWeight(wk, O, C, ax, sd) ==
  CASE wk = "w5"   -> Mk(<<O, C, ax[1][2], ax[2][2], ax[3][2]>>, sd)
    [] wk = "w2"   -> Mk(<<O, C * ax[1][2] * ax[2][2] * ax[3][2]>>, sd)
    [] wk = "w2hw" -> Mk(<<O, C * ax[2][2] * ax[3][2]>>, sd)
    [] wk = "w3"   -> Mk(<<O, C, ax[1][2]>>, sd)
    [] wk = "w5c"  -> Mk(<<O, C + 1, ax[1][2], ax[2][2], ax[3][2]>>, sd)
    [] wk = "w5k"  -> Mk(<<O, C, ax[1][2] + 1, ax[2][2], ax[3][2]>>, sd)
    [] wk = "w0"   -> Mk(<<0, C, ax[1][2], ax[2][2], ax[3][2]>>, sd)
    [] OTHER       -> Undef

MkBias(bk, O, sd) ==
  CASE bk = "ok"   -> Mk(<<O>>, sd + 1)
    [] bk = "long" -> Mk(<<O + 1>>, sd + 1)
    [] bk = "b2d"  -> Mk(<<O, 1>>, sd + 1)
    [] OTHER       -> Undef

MkGradOutput(gk, B, O, ax, sd) ==
  LET o == [a \in 1..3 |-> ExpectedOut(ax[a])]
  IN  CASE gk = "chan" -> Mk(<<B, O + 1, o[1], o[2], o[3]>>, sd + 2)
        [] gk = "spat" -> Mk(<<B, O, o[1] + 1, o[2], o[3]>>, sd + 2)
        [] gk = "short" -> Mk(<<IF B > 0 THEN B - 1 ELSE 0,
                                 O, o[1], o[2], o[3]>>, sd + 2)
        [] OTHER       -> Mk(<<B, O, o[1], o[2], o[3]>>, sd + 2)

MkArgs(B, C, r5, ax, wk, O, bk, gk, sd, ob, gi, gw, gb, n) ==
  [input  |-> Mk(IF r5 THEN <<B, C, ax[1][1], ax[2][1], ax[3][1]>>
                 ELSE <<C, ax[1][1], ax[2][1], ax[3][1]>>, sd),
   weight |-> MkWeight(wk, O, C, ax, sd),
   bias   |-> MkBias(bk, O, sd),
   ks     |-> <<ax[1][2], ax[2][2], ax[3][2]>>,
   st     |-> <<ax[1][3], ax[2][3], ax[3][3]>>,
   pd     |-> <<ax[1][4], ax[2][4], ax[3][4]>>,
   go     |-> MkGradOutput(gk, B, O, ax, sd),
   out    |-> ob, gi |-> gi, gw |-> gw, gb |-> gb, calls |-> n]

InitWith(a) ==
  /\ pc = "idle"
  /\ err = ""
  /\ self = a.input
  /\ weight = a.weight
  /\ bias = a.bias
  /\ kernel_size = a.ks
  /\ stride = a.st
  /\ padding = a.pd
  /\ grad_output = a.go
  /\ output = a.out
  /\ finput = Empty0
  /\ fgrad_input = Empty0
  /\ grad_input = a.gi
  /\ grad_weight = a.gw
  /\ grad_bias = a.gb
  /\ parts = <<>>
  /\ pre = [output |-> a.out, finput |-> Empty0, fgrad_input |-> Empty0,
            grad_input |-> a.gi, grad_weight |-> a.gw, grad_bias |-> a.gb]
  /\ handled = [fwd |-> <<>>, gi |-> <<>>, gp |-> <<>>]
  /\ lost = NoLost
  /\ ncalls = a.calls

AxisFull ==
  {<<n, k, s, p>> : n \in 0..MaxIn, k \in 0..MaxK, s \in 0..MaxStride,
                    p \in 0..MaxPad}

AxisNominal == {<<1, 1, 1, 0>>, <<2, 2, 1, 0>>}

\* one axis takes every configuration, the two others a nominal one
FocusAxes ==
  {<<a, b, c>> : a \in AxisFull, b \in AxisNominal, c \in AxisNominal}
    \cup {<<b, a, c>> : a \in AxisFull, b \in AxisNominal, c \in AxisNominal}
    \cup {<<b, c, a>> : a \in AxisFull, b \in AxisNominal, c \in AxisNominal}

NominalAxes ==
  {<<a, b, c>> : a \in AxisNominal, b \in AxisNominal, c \in AxisNominal}

WeightKinds == {"w5", "w2", "w2hw", "w3", "w5c", "w5k", "w0", "none"}

BiasKinds == {"none", "ok", "long", "b2d"}

\* the scenarios the specification names
Scenarios ==
  {MkArgs(1, 1, TRUE, <<<<4, 2, 1, 0>>, <<4, 2, 1, 0>>, <<4, 2, 1, 0>>>>,
          "w5", 1, "ok", "ok", 1, Empty0, Undef, Undef, Undef, 0),
   MkArgs(1, 1, TRUE, <<<<3, 0, 1, 0>>, <<3, 3, 1, 0>>, <<3, 3, 1, 0>>>>,
          "w5", 1, "none", "ok", 1, Empty0, Undef, Undef, Undef, 0),
   MkArgs(1, 1, FALSE, <<<<3, 1, 1, 0>>, <<3, 1, 1, 0>>, <<3, 1, 1, 0>>>>,
          "w5", 1, "none", "ok", 1, Empty0, Undef, Undef, Undef, 0),
   MkArgs(1, 1, TRUE, <<<<3, 1, 1, 0>>, <<3, 1, 1, 0>>, <<3, 1, 1, 0>>>>,
          "w3", 1, "none", "ok", 1, Empty0, Undef, Undef, Undef, 0),
   MkArgs(1, 1, TRUE, <<<<3, 5, 1, 0>>, <<3, 5, 1, 0>>, <<3, 5, 1, 0>>>>,
          "w5", 1, "none", "ok", 1, Empty0, Undef, Undef, Undef, 0)}

\* calls of Forward over geometries and over tensor ranks and sizes
ShapeArgs ==
  {MkArgs(B, 1, TRUE, ax, "w5", 1, bk, "ok", 1, ob, Undef, Undef, Undef, 0) :
     B \in 0..1, ax \in FocusAxes, bk \in {"none", "ok"},
     ob \in {Empty0, Dirty}}
  \cup
  {MkArgs(B, C, r5, ax, wk, O, bk, "ok", 1, Empty0, Undef, Undef, Undef, 0) :
     B \in 0..1, C \in 0..MaxChan, r5 \in BOOLEAN, ax \in NominalAxes,
     wk \in WeightKinds, O \in 1..2, bk \in BiasKinds}
  \cup Scenarios

InitShape == \E a \in ShapeArgs : InitWith(a)

NextFwd ==
  \/ ForwardCall
  \/ \E i \in 1..Len(parts) : FwdStep(i)
  \/ FwdJoin

SpecShape == InitShape /\ [][NextFwd]_vars

(***************************************************************************)
(* Properties of the validator and of Forward                              *)
(***************************************************************************)
Called == pc # "idle"

Rejected == pc = "error" /\ err = "InvalidArgument"

\* the validator let the Forward call through
Validated == pc \in {"fwd", "fwd_done"} \/ (pc = "error" /\ err = "RuntimeError")

KernelVolume == kernel_size[1] * kernel_size[2] * kernel_size[3]

\* floor((input + 2 pad - kernel) / stride) + 1 along axis a
FloorOut(a) ==
  ((Size(self, a + 1) + 2 * padding[a] - kernel_size[a]) \div stride[a]) + 1

\* every check of the validator but the one on the input-channel count
ChecksBesidePlanes ==
  /\ CheckKernelStride(kernel_size, stride)
  /\ CheckWeightBias(weight, bias, FALSE)
  /\ CheckInput(self)
  /\ CheckPadded(self, kernel_size, padding)
  /\ CheckOutputSize(self, kernel_size, stride, padding)

\* C2: a rank-2 weight (out_channels, C*kd*kh*kw) implies C input channels
\* (its second dimension divided by the kernel volume): with every other check
\* passing, Forward accepts an input of exactly C channels and rejects, with
\* InvalidArgument, an input of any other channel count.
C2_Rank2WeightImpliesVolumeChannels ==
  (/\ Called
   /\ weight.def /\ Dim(weight) = 2
   /\ ChecksBesidePlanes
   /\ Size(weight, 1) % KernelVolume = 0)
  => (Rejected <=> Size(self, 1) # Size(weight, 1) \div KernelVolume)

\* C3: after validation Forward's output has shape (batch, out_channels, od,
\* oh, ow) with each size floor((input + 2 pad - kernel)/stride) + 1 >= 1, the
\* truncating sizes of Forward equal the round-to-negative-infinity sizes of
\* the validator, and a size < 1 on some axis makes the call fail with
\* InvalidArgument.
C3_OutputSizeFormula ==
  /\ Validated =>
       /\ output.shape = <<Size(self, 0), Size(weight, 0),
                           FloorOut(1), FloorOut(2), FloorOut(3)>>
       /\ \A a \in 1..3 :
            /\ FloorOut(a) >= 1
            /\ ForwardOsz[a] = CheckOsz(self, kernel_size, stride, padding)[a]
  /\ (/\ Called
      /\ Dim(self) = 5
      /\ \A a \in 1..3 : stride[a] > 0
      /\ \E a \in 1..3 : FloorOut(a) < 1)
     => Rejected

\* a Forward that succeeded where the division by the stride is inexact
C3_Witness ==
  /\ pc = "fwd_done"
  /\ Size(self, 0) = 1
  /\ \E a \in 1..3 :
       /\ stride[a] = 2
       /\ (Size(self, a + 1) + 2 * padding[a] - kernel_size[a]) % 2 = 1
       /\ output.shape[a + 2] = 2

\* C6: Forward fails with InvalidArgument when a kernel or stride component
\* is <= 0, the input is not of rank 5, a defined weight is empty or not of
\* rank 2 or 5, a defined bias has not the length of the weight's leading
\* dimension, or the padded input is smaller than the kernel on some axis.
C6_InvalidArgumentsRejected ==
  (/\ Called
   /\ \/ \E a \in 1..3 : kernel_size[a] <= 0
      \/ \E a \in 1..3 : stride[a] <= 0
      \/ Dim(self) # 5
      \/ (weight.def /\ (Numel(weight) = 0 \/ Dim(weight) \notin {2, 5}))
      \/ (weight.def /\ bias.def
            /\ ~(Dim(bias) = 1 /\ bias.shape[1] = weight.shape[1]))
      \/ (Dim(self) = 5
            /\ \E a \in 1..3 :
                 Size(self, a + 1) + 2 * padding[a] < kernel_size[a]))
  => Rejected

\* the 3x3x3 input with the 5x5x5 kernel and no padding was rejected
C6_Witness ==
  /\ Rejected
  /\ self.shape = <<1, 1, 3, 3, 3>>
  /\ kernel_size = <<5, 5, 5>>
  /\ padding = <<0, 0, 0>>
  /\ pre.output = output

\* every check of the validator but the one on the input's rank and emptiness
ChecksBesideInput ==
  /\ CheckKernelStride(kernel_size, stride)
  /\ CheckWeightBias(weight, bias, FALSE)
  /\ CheckPadded(self, kernel_size, padding)
  /\ CheckOutputSize(self, kernel_size, stride, padding)
  /\ CheckInputPlanes(self, weight, kernel_size)

\* C7: of the empty inputs only a rank-5 one whose batch alone is 0 is
\* accepted: Forward then succeeds (when nothing else is invalid), runs no
\* per-item kernel and returns an output of shape (0, out_channels, od, oh,
\* ow); a zero size in another dimension fails with InvalidArgument.
C7_OnlyEmptyBatchAccepted ==
  (Called /\ Dim(self) = 5 /\ Numel(self) = 0)
  => IF Size(self, 0) = 0 /\ \A d \in 1..4 : Size(self, d) # 0
       THEN /\ ChecksBesideInput <=> ~Rejected
            /\ ~Rejected =>
                 /\ pc \in {"fwd", "fwd_done"}
                 /\ parts = <<>>
                 /\ handled.fwd = <<>>
                 /\ output.shape = <<0, Size(weight, 0),
                                     FloorOut(1), FloorOut(2), FloorOut(3)>>
                 /\ output.data = <<>>
                 /\ finput.data = <<>>
       ELSE Rejected

\* Forward returned for an empty batch
C7_Witness ==
  /\ pc = "fwd_done"
  /\ Dim(self) = 5
  /\ Size(self, 0) = 0
  /\ Dim(output) = 5
  /\ Size(output, 0) = 0
  /\ Size(output, 2) >= 2

\* the shape the ColumnBuffer is to have: (batch, in_channels*kd*kh*kw,
\* od*oh*ow)
ColumnShape ==
  <<Size(self, 0), Size(self, 1) * KernelVolume,
    FloorOut(1) * FloorOut(2) * FloorOut(3)>>

\* C8 as stated: after a successful Forward given zero-sized scratch buffers
\* both ColumnBuffer and GradColumnBuffer have the shape (batch,
\* in_channels*kd*kh*kw, od*oh*ow).
C8_BothScratchResized ==
  (pc = "fwd_done" /\ pre.finput = Empty0 /\ pre.fgrad_input = Empty0)
  => /\ finput.shape = ColumnShape
     /\ fgrad_input.shape = ColumnShape

\* C8 amended: after a successful Forward given zero-sized scratch buffers
\* ColumnBuffer has the shape (batch, in_channels*kd*kh*kw, od*oh*ow), and
\* GradColumnBuffer is returned as it was given, still zero-sized.
C8_ColumnResizedGradColumnUntouched ==
  (pc = "fwd_done" /\ pre.finput = Empty0 /\ pre.fgrad_input = Empty0)
  => /\ finput.shape = ColumnShape
     /\ fgrad_input = Empty0

\* a successful Forward on a non-empty batch with a kernel of several taps
C8_Witness ==
  /\ pc = "fwd_done"
  /\ pre.finput = Empty0
  /\ Size(self, 0) >= 1
  /\ KernelVolume >= 2
  /\ finput.shape = ColumnShape
  /\ Len(finput.data) >= 2

\* weight2d[c][k] * ColumnBuffer[n][k][p] summed over k, everything counted
\* from 0, read off the buffers as they are
RECURSIVE DotColumn(_, _, _, _)
DotColumn(n, c, p, k) ==
  IF k = 0 THEN 0
  ELSE weight.data[c * Size(finput, 1) + k]
         * finput.data[(n * Size(finput, 1) + (k - 1)) * Size(finput, 2) + p + 1]
       + DotColumn(n, c, p, k - 1)

\* C9: after Forward, output[n][c][p] = bias[c] + sum over k of
\* weight2d[c][k] * ColumnBuffer[n][k][p] with a bias, and the sum alone
\* without one, whatever the output buffer held before the call.
C9_OutputIsBiasPlusProduct ==
  pc = "fwd_done" =>
    \A n \in 0..(Size(output, 0) - 1) :
      \A c \in 0..(Size(output, 1) - 1) :
        \A p \in 0..(Size(finput, 2) - 1) :
          output.data[(n * Size(output, 1) + c) * Size(finput, 2) + p + 1]
            = (IF bias.def THEN bias.data[c + 1] ELSE 0)
                + DotColumn(n, c, p, Size(finput, 1))

\* Forward returned on a buffer that held something, without a bias, with a
\* non-zero output element
C9_Witness ==
  /\ pc = "fwd_done"
  /\ ~bias.def
  /\ pre.output = Dirty
  /\ \E x \in 1..Len(output.data) : output.data[x] # 0 /\ output.data[x] # 5

(***************************************************************************)
(* Forward followed by Backward calls                                      *)
(***************************************************************************)
Next ==
  \/ ForwardCall
  \/ \E i \in 1..Len(parts) : FwdStep(i)
  \/ FwdJoin
  \/ BackwardCall
  \/ \E i \in 1..Len(parts) : GIStep(i)
  \/ GIJoin
  \/ \E i \in 1..Len(parts) : GPStep(i)
  \/ GPJoin

\* a gradient buffer as the caller passes it: absent when not requested
Buf(requested, dirty) ==
  IF ~requested THEN Undef ELSE IF dirty THEN Dirty ELSE Empty0

Masks == {<<a, b, c>> : a \in BOOLEAN, b \in BOOLEAN, c \in BOOLEAN}

GradAxes ==
  {<<<<1, 1, 1, 0>>, <<1, 1, 1, 0>>, <<1, 1, 1, 0>>>>,
   <<<<2, 2, 1, 0>>, <<1, 1, 1, 0>>, <<2, 1, 1, 0>>>>,
   <<<<1, 1, 1, 0>>, <<3, 2, 2, 1>>, <<1, 1, 1, 0>>>>,
   <<<<1, 1, 1, 0>>, <<1, 1, 1, 0>>, <<3, 2, 1, 0>>>>}

GradArgs ==
  {MkArgs(B, C, TRUE, ax, wk, O, "ok", gk, sd, Empty0,
          Buf(m[1], d), Buf(m[2], d), Buf(m[3], d), MaxCalls) :
     B \in 0..MaxBatch, C \in 1..2, ax \in GradAxes, wk \in {"w5", "w2"},
     O \in 1..2, gk \in {"ok", "chan", "spat", "short"}, sd \in 1..MaxSeed,
     m \in Masks, d \in BOOLEAN}

Init == \E a \in GradArgs : InitWith(a)

Spec == Init /\ [][Next]_vars

(***************************************************************************)
(* Batches large enough for the loops to be split into partitions          *)
(***************************************************************************)
ParAxes == <<<<1, 1, 1, 0>>, <<1, 1, 1, 0>>, <<2, 2, 1, 1>>>>

ParArgs ==
  {MkArgs(B, 1, TRUE, ParAxes, "w5", 1, "ok", "ok", 1, Empty0,
          Buf(m[1], FALSE), Buf(m[2], FALSE), Buf(m[3], FALSE), 1) :
     B \in CONV3D_GRAIN_SALT..(CONV3D_GRAIN_SALT + MaxExtra),
     m \in {<<TRUE, TRUE, TRUE>>, <<TRUE, FALSE, TRUE>>,
             <<FALSE, TRUE, FALSE>>}}

InitPar == \E a \in ParArgs : InitWith(a)

SpecPar == InitPar /\ [][Next]_vars

(***************************************************************************)
(* Sequential references: the batch indices processed one after another    *)
(***************************************************************************)
ZeroTensor(shape) ==
  [def |-> TRUE, shape |-> shape, data |-> ZeroSeq(Prod(shape))]

\* Forward's loop body for t = from, from + 1, ..., batch - 1
RECURSIVE SeqForward(_, _, _)
SeqForward(from, fin, out) ==
  IF from >= Size(self, 0) THEN [fin |-> fin, out |-> out]
  ELSE LET f1 == SetSlice(fin, from,
                   Unfold3dCopyCPU(Select(self, from).data, FrameGeom))
           w2d == view_weight_2d(weight)
       IN  SeqForward(from + 1, f1,
             SetSlice(out, from,
               OutputFrame(Select(out, from), w2d, Select(f1, from),
                           Size(w2d, 0), Size(f1, 2))))

SeqForwardResult ==
  SeqForward(0, ZeroTensor(finput.shape), ZeroTensor(output.shape))

\* the gradInput loop body for t = from, ..., batch - 1
RECURSIVE SeqGradInput(_, _, _)
SeqGradInput(from, fg, gi) ==
  IF from >= Size(self, 0) THEN [fg |-> fg, gi |-> gi]
  ELSE LET f1 == SetSlice(fg, from,
                   GradColumnsFrame(Select(fg, from), view_weight_2d(weight),
                                    Select(grad_output, from)))
       IN  SeqGradInput(from + 1, f1,
             SetSlice(gi, from,
               GradInputFrame(Select(gi, from), Select(f1, from))))

SeqGradInputResult ==
  SeqGradInput(0, ZeroTensor(finput.shape), ZeroTensor(self.shape))

\* the parameter loop body for t = from, ..., batch - 1
RECURSIVE SeqGradParams(_, _, _)
SeqGradParams(from, gw, gb) ==
  IF from >= Size(self, 0) THEN [w |-> gw, b |-> gb]
  ELSE SeqGradParams(from + 1,
         IF grad_weight.def
           THEN GradWeightFrame(gw, Select(grad_output, from),
                                Select(finput, from))
           ELSE gw,
         IF grad_bias.def
           THEN [c \in 1..Len(gb) |->
                   gb[c] + GradBiasRowSum(Select(grad_output, from), c - 1)]
           ELSE gb)

SeqGradParamsResult ==
  SeqGradParams(0,
    IF grad_weight.def THEN ZeroSeq(Numel(weight)) ELSE <<>>,
    IF grad_bias.def THEN ZeroSeq(Size(grad_output, 1)) ELSE <<>>)

(***************************************************************************)
(* Properties of the calls and of the parallel loops                       *)
(***************************************************************************)
\* C1: a Forward or Backward call that ends in a validation failure has
\* neither resized nor written any caller-visible buffer: output,
\* ColumnBuffer, GradColumnBuffer, gradInput, gradWeight and gradBias are as
\* they were when the call began.
C1_ValidationFailureLeavesBuffers ==
  Rejected => Buffers = pre

\* C4: the accumulations into the shared gradWeight and gradBias are
\* unprotected load-then-store sequences: what Backward returns is the
\* sequential sum less what stores of stale values overwrote, and nothing is
\* overwritten when the batch makes a single partition.
C4_UnsynchronisedAccumulationLosesUpdates ==
  pc = "bwd_done" =>
    LET seq == SeqGradParamsResult
    IN  /\ grad_bias.def =>
             [c \in 1..Len(grad_bias.data) |-> grad_bias.data[c] + lost.b[c]]
               = seq.b
        /\ grad_weight.def =>
             [x \in 1..Len(grad_weight.data) |->
                grad_weight.data[x] + lost.w[x]] = seq.w
        /\ Len(parts) <= 1 =>
             /\ \A c \in 1..Len(lost.b) : lost.b[c] = 0
             /\ \A x \in 1..Len(lost.w) : lost.w[x] = 0

\* Backward returned, from a batch split into two partitions, a gradBias that
\* is not the sum over the batch: a contribution was lost
C4_Witness ==
  /\ pc = "bwd_done"
  /\ Len(parts) >= 2
  /\ grad_bias.def
  /\ lost.b[1] # 0
  /\ grad_bias.data # SeqGradParamsResult.b

AllOnce(h) == \A t \in DOMAIN h : h[t] = 1

\* C5: in the Forward and GradInput loops every batch index belongs to
\* exactly one partition and is processed once, and whatever the interleaving
\* of the partitions output, ColumnBuffer, GradColumnBuffer and gradInput end
\* as sequential processing of the indices leaves them.
C5_DisjointSlicesGiveSequentialResult ==
  /\ pc \in {"fwd", "bwd_gi"} =>
       \A t \in 0..(Size(self, 0) - 1) :
         Cardinality({i \in 1..Len(parts) :
                        parts[i].lo <= t /\ t < parts[i].hi}) = 1
  /\ (pc = "fwd" /\ AllDone /\ err = "") =>
       LET seq == SeqForwardResult
       IN  /\ DOMAIN handled.fwd = 0..(Size(self, 0) - 1)
           /\ AllOnce(handled.fwd)
           /\ output.data = seq.out.data
           /\ finput.data = seq.fin.data
  /\ (pc = "bwd_gi" /\ AllDone /\ err = "") =>
       LET seq == SeqGradInputResult
       IN  /\ DOMAIN handled.gi = 0..(Size(self, 0) - 1)
           /\ AllOnce(handled.gi)
           /\ fgrad_input.data = seq.fg.data
           /\ grad_input.data = seq.gi.data

\* the gradInput loop of a batch split into two partitions has ended
C5_Witness ==
  /\ pc = "bwd_gi"
  /\ AllDone
  /\ Size(self, 0) > CONV3D_GRAIN_SALT
  /\ Len(parts) >= 2
  /\ AllOnce(handled.gi)
  /\ \E x \in 1..Len(grad_input.data) : grad_input.data[x] # 0

\* C10: with the partitions run sequentially, what Backward returns is a
\* function of outputGrad, input, weight, ColumnBuffer, kernel, stride and
\* padding alone: gradients are zeroed before the accumulation and every
\* GradColumnBuffer slice is overwritten, so a second call on the same buffers
\* returns what the first returned.
C10_BackwardIgnoresPriorContents ==
  (pc = "bwd_done" /\ Len(parts) <= 1) =>
    /\ grad_input.def =>
         LET seq == SeqGradInputResult
         IN  /\ grad_input.shape = self.shape
             /\ grad_input.data = seq.gi.data
             /\ fgrad_input.shape = finput.shape
             /\ fgrad_input.data = seq.fg.data
    /\ (grad_weight.def \/ grad_bias.def) =>
         LET seq == SeqGradParamsResult
         IN  /\ grad_weight.def =>
                  /\ grad_weight.shape = weight.shape
                  /\ grad_weight.data = seq.w
             /\ grad_bias.def =>
                  /\ grad_bias.shape = <<Size(grad_output, 1)>>
                  /\ grad_bias.data = seq.b

\* the second of two Backward calls returned, having been given the buffers
\* the first had filled with non-zero gradients
C10_Witness ==
  /\ pc = "bwd_done"
  /\ ncalls = 0
  /\ Size(self, 0) >= 2
  /\ grad_input.def /\ grad_weight.def /\ grad_bias.def
  /\ pre.grad_input.shape = self.shape
  /\ \E x \in 1..Len(pre.grad_input.data) : pre.grad_input.data[x] # 0
  /\ \E x \in 1..Len(pre.grad_weight.data) : pre.grad_weight.data[x] # 0
  /\ \E x \in 1..Len(pre.grad_bias.data) : pre.grad_bias.data[x] # 0
  /\ \E x \in 1..Len(pre.fgrad_input.data) : pre.fgrad_input.data[x] # 0

(***************************************************************************)
(* Batch indices of the Backward loops                                     *)
(***************************************************************************)
\* C11: in Backward, after validation and with the ColumnBuffer Forward made
\* for the same input, every batch index t the GradInput and GradParam loops
\* iterate (t below the input's batch size) is a valid leading index into
\* outputGrad, ColumnBuffer, GradColumnBuffer and gradInput.
C11_BatchIndicesInRange ==
  /\ pc = "bwd_gi" =>
       \A i \in 1..Len(parts) :
         Pending(i) =>
           /\ FrameIndex(parts[i]) < Size(grad_input, 0)
           /\ FrameIndex(parts[i]) < Size(grad_output, 0)
           /\ FrameIndex(parts[i]) < Size(fgrad_input, 0)
  /\ pc = "bwd_gp" =>
       \A i \in 1..Len(parts) :
         Pending(i) =>
           /\ FrameIndex(parts[i]) < Size(grad_output, 0)
           /\ grad_weight.def => FrameIndex(parts[i]) < Size(finput, 0)
  /\ err # "IndexError"

====
